---- MODULE Spec2Model ----
(***************************************************************************)
(* Model of src/src/data_structures/heap.js: class MaxHeap, a bounded      *)
(* priority queue on a 1-indexed array of record objects.                  *)
(*                                                                         *)
(* The storage array holds REFERENCES to record objects (JavaScript        *)
(* semantics): storage[i] is the identity of the object in slot i and      *)
(* objs maps an identity to that object's fields.  _swap exchanges         *)
(* references; insert writes the fields of an object in place.             *)
(***************************************************************************)
EXTENDS Integers, FiniteSets, Sequences, TLC

\* ---- bounds of the model ------------------------------------------------
\* largest capacity of a heap in Spec
MaxSize == 3
\* largest number of records of an array in SpecArray
MaxLen == 5
\* priorities are 0 .. MaxPri
MaxPri == 2

\* ---- values -------------------------------------------------------------
\* JavaScript's undefined (initial priority/element of a slot, the value of
\* `return;`).  Priorities are 0..MaxPri and elements are >= 1, so no number
\* a caller passes collides with it except where the caller passes undefined.
undefined == -1
\* The sentinel stored at index 0 of the storage array.
null == 0

Priorities == 0 .. MaxPri
Elements == {undefined, 1}

VARIABLES
  storage,      \* this._storage : [0..size -> object identity], storage[0] = null
  objs,         \* the record objects: identity -> [priority, element]
  size,         \* this.size
  count,        \* this._count
  op,           \* the last public operation that was called
  args,         \* its arguments
  ret,          \* its return value
  err,          \* the message of the Error it threw, "" when it returned
  lastRemoved   \* history: priority of the record returned by the latest
                \* removeMax when no insert succeeded since, else undefined

vars == <<storage, objs, size, count, op, args, ret, err, lastRemoved>>

\* ---- index arithmetic ---------------------------------------------------
_left(i) == 2 * i

_right(i) == 2 * i + 1

_parent(i) == i \div 2

_inSizeBounds(sz, i) == i > 0 /\ i <= sz

_inCountBounds(cnt, i) == i > 0 /\ i <= cnt

_isHeapFull(cnt, sz) == cnt = sz

\* JavaScript's a < b on number-or-undefined operands: undefined converts to
\* NaN and every comparison with NaN is false.
JsLess(a, b) == a # undefined /\ b # undefined /\ a < b

JsGreater(a, b) == a # undefined /\ b # undefined /\ a > b

\* this._storage[i].priority
priority(st, ob, i) == ob[st[i]].priority

\* ---- the two sift primitives --------------------------------------------
\* Mutant of _swap: the second assignment is lost, so slot j keeps its record.
_swap_copy(st, i, j) == [st EXCEPT ![i] = st[j]]

_swap(st, i, j) == [st EXCEPT ![i] = st[j], ![j] = st[i]]

\* Mutant of _float: on equal priorities the elements break the tie.
RECURSIVE _float_elemTie(_, _, _, _)
_float_elemTie(st, ob, sz, i) ==
  LET p == _parent(i) IN
  IF /\ _inSizeBounds(sz, p)
     /\ \/ JsGreater(priority(st, ob, i), priority(st, ob, p))
        \/ /\ priority(st, ob, i) = priority(st, ob, p)
           /\ ob[st[i]].element > ob[st[p]].element
  THEN _float_elemTie(_swap(st, i, p), ob, sz, p)
  ELSE st

\* Mutant of _float: a record also rises past a parent of equal priority.
RECURSIVE _float_geq(_, _, _, _)
_float_geq(st, ob, sz, i) ==
  LET p == _parent(i) IN
  IF _inSizeBounds(sz, p) /\ ~JsLess(priority(st, ob, i), priority(st, ob, p))
  THEN _float_geq(_swap(st, i, p), ob, sz, p)
  ELSE st

RECURSIVE _float(_, _, _, _)
_float(st, ob, sz, i) ==
  LET p == _parent(i) IN
  IF _inSizeBounds(sz, p) /\ JsGreater(priority(st, ob, i), priority(st, ob, p))
  THEN _float(_swap(st, i, p), ob, sz, p)
  ELSE st

\* Mutant of SinkMax: the right child is compared with i, not with max.
SinkMax_cmpRoot(st, ob, cnt, i) ==
  LET l == _left(i)
      r == _right(i)
      max1 == IF _inCountBounds(cnt, l) /\ JsLess(priority(st, ob, i), priority(st, ob, l))
              THEN l ELSE i
  IN  IF _inCountBounds(cnt, r) /\ JsLess(priority(st, ob, i), priority(st, ob, r))
      THEN r ELSE max1

\* Mutant of SinkMax: the children are tested with _inSizeBounds, against
\* the capacity (the array's length - 1), not against count.
SinkMax_sizeBounds(st, ob, cnt, i) ==
  LET l == _left(i)
      r == _right(i)
      sz == Cardinality(DOMAIN st) - 1
      max1 == IF _inSizeBounds(sz, l) /\ JsLess(priority(st, ob, i), priority(st, ob, l))
              THEN l ELSE i
  IN  IF _inSizeBounds(sz, r) /\ JsLess(priority(st, ob, max1), priority(st, ob, r))
      THEN r ELSE max1

\* Mutant of SinkMax: the right child wins when it is not less than max.
SinkMax_rightOnTie(st, ob, cnt, i) ==
  LET l == _left(i)
      r == _right(i)
      max1 == IF _inCountBounds(cnt, l) /\ JsLess(priority(st, ob, i), priority(st, ob, l))
              THEN l ELSE i
  IN  IF _inCountBounds(cnt, r) /\ ~JsLess(priority(st, ob, r), priority(st, ob, max1))
      THEN r ELSE max1

\* One iteration of _sink's loop body: the index `max` it settles on.
SinkMax(st, ob, cnt, i) ==
  LET l == _left(i)
      r == _right(i)
      max1 == IF _inCountBounds(cnt, l) /\ JsLess(priority(st, ob, i), priority(st, ob, l))
              THEN l ELSE i
  IN  IF _inCountBounds(cnt, r) /\ JsLess(priority(st, ob, max1), priority(st, ob, r))
      THEN r ELSE max1

RECURSIVE _sink(_, _, _, _)
_sink(st, ob, cnt, i) ==
  LET max == SinkMax(st, ob, cnt, i) IN
  IF max = i THEN st ELSE _sink(_swap(st, i, max), ob, cnt, max)

RECURSIVE BuildheapLoop(_, _, _, _)
BuildheapLoop(st, ob, cnt, i) ==
  IF i >= 1 THEN BuildheapLoop(_sink(st, ob, cnt, i), ob, cnt, i - 1) ELSE st

\* Mutant of BuildheapBefore: the loop runs upwards, from 1 to the midpoint.
RECURSIVE BuildheapBefore_ascending(_, _, _, _)
BuildheapBefore_ascending(st, ob, cnt, i) ==
  IF i <= 1 THEN st
  ELSE _sink(BuildheapBefore_ascending(st, ob, cnt, i - 1), ob, cnt, i - 1)

\* The storage at the moment _buildheap's loop variable has the value i:
\* sink(midpoint), ..., sink(i + 1) have returned and sink(i) is about to be
\* invoked (for i = 0: the loop is over).
RECURSIVE BuildheapBefore(_, _, _, _)
BuildheapBefore(st, ob, cnt, i) ==
  IF i >= cnt \div 2 THEN st
  ELSE _sink(BuildheapBefore(st, ob, cnt, i + 1), ob, cnt, i + 1)

\* Mutant of _buildheap: the loop starts one below the midpoint.
_buildheap_offByOne(st, ob, cnt) == BuildheapLoop(st, ob, cnt, cnt \div 2 - 1)

_buildheap(st, ob, cnt) == BuildheapLoop(st, ob, cnt, cnt \div 2)

\* ---- constructor --------------------------------------------------------
\* A record a caller can pass in an array: a numeric priority, any element.
Records == [priority : Priorities, element : Elements]

\* The arrays a caller can pass as fromArray, of n records: slot 0 holds the
\* sentinel and slot i the i-th record object (objects named by position).
ArrayStorage(n) == [i \in 0 .. n |-> IF i = 0 THEN null ELSE i]

ArrayObjs(n) == [1 .. n -> Records]

\* new MaxHeap({ size: sz }): the fields of the new heap.
\* Mutant of NewEmpty: every slot references one shared record object.
NewEmpty_fill(sz) ==
  [storage |-> [i \in 0 .. sz |-> IF i = 0 THEN null ELSE 1],
   objs    |-> [k \in 1 .. sz |-> [priority |-> undefined, element |-> undefined]],
   size    |-> sz,
   count   |-> 0]

NewEmpty(sz) ==
  [storage |-> [i \in 0 .. sz |-> IF i = 0 THEN null ELSE i],
   objs    |-> [k \in 1 .. sz |-> [priority |-> undefined, element |-> undefined]],
   size    |-> sz,
   count   |-> 0]

\* new MaxHeap({ fromArray }): the array is adopted, then heapified in place.
NewFromArray(st, ob) ==
  LET sz == Cardinality(DOMAIN st) - 1 IN
  [storage |-> _buildheap(st, ob, sz),
   objs    |-> ob,
   size    |-> sz,
   count   |-> sz]

\* ---- public operations as functions of the fields -----------------------
\* insert(p, e) when count + 1 is in size bounds.
insert(st, ob, sz, cnt, p, e) ==
  LET i   == cnt + 1
      ob1 == [ob EXCEPT ![st[i]] = [priority |-> p, element |-> e]]
  IN  [storage |-> _float(st, ob1, sz, i), objs |-> ob1, count |-> cnt + 1]

\* Mutant of removeMax: returns the element of the new root.
removeMax_returnRoot(st, ob, cnt) ==
  IF cnt = 0
  THEN [storage |-> st, count |-> cnt, ret |-> undefined]
  ELSE LET root == 1
           last == cnt
           sunk == _sink(_swap(st, root, last), ob, cnt - 1, root)
       IN  [storage |-> sunk, count |-> cnt - 1, ret |-> ob[sunk[root]].element]

\* Mutant of removeMax: the new root is not sunk.
removeMax_noSink(st, ob, cnt) ==
  IF cnt = 0
  THEN [storage |-> st, count |-> cnt, ret |-> undefined]
  ELSE LET root == 1
           last == cnt
           swapped == _swap(st, root, last)
       IN  [storage |-> swapped, count |-> cnt - 1, ret |-> ob[swapped[last]].element]

\* Mutant of removeMax: sinks within the old count, the removed record included.
removeMax_sinkOldCount(st, ob, cnt) ==
  IF cnt = 0
  THEN [storage |-> st, count |-> cnt, ret |-> undefined]
  ELSE LET root == 1
           last == cnt
           sunk == _sink(_swap(st, root, last), ob, cnt, root)
       IN  [storage |-> sunk, count |-> cnt - 1, ret |-> ob[sunk[last]].element]

\* Mutant of removeMax: count is decremented before the empty check.
removeMax_decrementFirst(st, ob, cnt) ==
  IF cnt <= 0
  THEN [storage |-> st, count |-> cnt - 1, ret |-> undefined]
  ELSE LET root == 1
           last == cnt
           sunk == _sink(_swap(st, root, last), ob, cnt - 1, root)
       IN  [storage |-> sunk, count |-> cnt - 1, ret |-> ob[sunk[last]].element]

removeMax(st, ob, cnt) ==
  IF cnt = 0
  THEN [storage |-> st, count |-> cnt, ret |-> undefined]
  ELSE LET root == 1
           last == cnt
           sunk == _sink(_swap(st, root, last), ob, cnt - 1, root)
       IN  [storage |-> sunk, count |-> cnt - 1, ret |-> ob[sunk[last]].element]

\* Mutant of SortLoop: the loop tests the live this._count, not the copy.
RECURSIVE SortLoop_liveCount(_, _, _, _, _)
SortLoop_liveCount(st, ob, cnt, i, n) ==
  IF i < cnt
  THEN LET r == removeMax(st, ob, cnt) IN SortLoop_liveCount(r.storage, ob, r.count, i + 1, n)
  ELSE [storage |-> st, count |-> cnt]

RECURSIVE SortLoop(_, _, _, _, _)
SortLoop(st, ob, cnt, i, n) ==
  IF i < n
  THEN LET r == removeMax(st, ob, cnt) IN SortLoop(r.storage, ob, r.count, i + 1, n)
  ELSE [storage |-> st, count |-> cnt]

sort(st, ob, cnt) == SortLoop(st, ob, cnt, 0, cnt)

\* ---- the heap as a state machine ----------------------------------------
InitEmpty ==
  \E sz \in 0 .. MaxSize :
    LET h == NewEmpty(sz) IN
    /\ storage = h.storage /\ objs = h.objs /\ size = h.size /\ count = h.count

InitFromArray ==
  \E n \in 0 .. MaxSize : \E ob \in ArrayObjs(n) :
    LET h == NewFromArray(ArrayStorage(n), ob) IN
    /\ storage = h.storage /\ objs = h.objs /\ size = h.size /\ count = h.count

Init ==
  /\ InitEmpty \/ InitFromArray
  /\ op = "new" /\ args = <<>> /\ ret = undefined /\ err = ""
  /\ lastRemoved = undefined

\* Mutant of Insert: a full heap drops the record silently.
Insert_silent(p, e) ==
  /\ op' = "insert" /\ args' = <<p, e>> /\ ret' = undefined
  /\ IF ~_inSizeBounds(size, count + 1)
     THEN /\ err' = ""
          /\ UNCHANGED <<storage, objs, size, count, lastRemoved>>
     ELSE LET h == insert(storage, objs, size, count, p, e) IN
          /\ err' = ""
          /\ storage' = h.storage /\ objs' = h.objs /\ count' = h.count
          /\ lastRemoved' = undefined
          /\ UNCHANGED size

Insert(p, e) ==
  /\ op' = "insert" /\ args' = <<p, e>> /\ ret' = undefined
  /\ IF ~_inSizeBounds(size, count + 1)
     THEN /\ err' = "Heap is full!"
          /\ UNCHANGED <<storage, objs, size, count, lastRemoved>>
     ELSE LET h == insert(storage, objs, size, count, p, e) IN
          /\ err' = ""
          /\ storage' = h.storage /\ objs' = h.objs /\ count' = h.count
          /\ lastRemoved' = undefined
          /\ UNCHANGED size

\* Mutant of RemoveMax: an empty heap throws, as a full one does on insert.
RemoveMax_throws ==
  LET h == removeMax(storage, objs, count) IN
  /\ op' = "removeMax" /\ args' = <<>>
  /\ err' = IF count = 0 THEN "Heap is empty!" ELSE ""
  /\ ret' = h.ret
  /\ storage' = h.storage /\ count' = h.count
  /\ lastRemoved' = IF count = 0 THEN lastRemoved
                    ELSE priority(h.storage, objs, count)
  /\ UNCHANGED <<objs, size>>

RemoveMax ==
  LET h == removeMax(storage, objs, count) IN
  /\ op' = "removeMax" /\ args' = <<>> /\ err' = ""
  /\ ret' = h.ret
  /\ storage' = h.storage /\ count' = h.count
  /\ lastRemoved' = IF count = 0 THEN lastRemoved
                    ELSE priority(h.storage, objs, count)
  /\ UNCHANGED <<objs, size>>

Count ==
  /\ op' = "count" /\ args' = <<>> /\ err' = ""
  /\ ret' = count
  /\ UNCHANGED <<storage, objs, size, count, lastRemoved>>

Sort ==
  LET h == sort(storage, objs, count) IN
  /\ op' = "sort" /\ args' = <<>> /\ err' = ""
  /\ storage' = h.storage /\ count' = h.count
  /\ ret' = h.storage
  /\ lastRemoved' = IF count = 0 THEN lastRemoved
                    ELSE priority(h.storage, objs, 1)
  /\ UNCHANGED <<objs, size>>

Next ==
  \/ \E p \in Priorities, e \in Elements : Insert(p, e)
  \/ RemoveMax
  \/ Count
  \/ Sort

Spec == Init /\ [][Next]_vars

\* ---- MaxHeap.heapsort(array) on a caller's array -------------------------
\* The state is the caller's array; size and count are the fields of the heap
\* heapsort builds on it (0 before the call).
InitArray ==
  /\ \E n \in 0 .. MaxLen : \E ob \in ArrayObjs(n) :
       storage = ArrayStorage(n) /\ objs = ob
  /\ size = 0 /\ count = 0
  /\ op = "array" /\ args = <<>> /\ ret = undefined /\ err = ""
  /\ lastRemoved = undefined

Construct ==
  LET h == NewFromArray(storage, objs) IN
  /\ op = "array"
  /\ op' = "new" /\ args' = <<>> /\ ret' = undefined /\ err' = ""
  /\ storage' = h.storage /\ size' = h.size /\ count' = h.count
  /\ UNCHANGED <<objs, lastRemoved>>

Heapsort ==
  LET heap == NewFromArray(storage, objs)
      h    == sort(heap.storage, heap.objs, heap.count)
  IN  /\ op = "array"
      /\ op' = "heapsort" /\ args' = <<>> /\ ret' = undefined /\ err' = ""
      /\ storage' = h.storage /\ size' = heap.size /\ count' = h.count
      /\ UNCHANGED <<objs, lastRemoved>>

NextArray == Construct \/ Heapsort

SpecArray == InitArray /\ [][NextArray]_vars

\* ---- a heap drained by sort(), then used again ---------------------------
\* The heap after insert(recs[1]), ..., insert(recs[k]) on the heap h.
RECURSIVE InsertAll(_, _, _)
InsertAll(h, recs, k) ==
  IF k = 0 THEN h
  ELSE LET g == InsertAll(h, recs, k - 1)
           r == insert(g.storage, g.objs, g.size, g.count,
                       recs[k].priority, recs[k].element)
       IN  [storage |-> r.storage, objs |-> r.objs, size |-> g.size, count |-> r.count]

\* new MaxHeap({size: sz}), k inserts, then sort(): the state sort() leaves.
InitDrained ==
  \E sz \in 0 .. MaxSize : \E k \in 0 .. sz : \E recs \in ArrayObjs(k) :
    LET h == InsertAll(NewEmpty(sz), recs, k)
        d == sort(h.storage, h.objs, h.count)
    IN  /\ storage = d.storage /\ objs = h.objs /\ size = sz /\ count = d.count
        /\ op = "sort" /\ args = <<>> /\ ret = d.storage /\ err = ""
        /\ lastRemoved = IF k = 0 THEN undefined ELSE priority(d.storage, h.objs, 1)

NextDrained ==
  \/ \E p \in Priorities, e \in Elements : Insert(p, e)
  \/ RemoveMax
  \/ Count

SpecDrained == InitDrained /\ [][NextDrained]_vars

\* ---- construction and use in one specification ---------------------------
\* The caller holds an array of up to MaxSize records and constructs a heap,
\* empty or from the array, or sorts the array; the heap is then used.
InitAll ==
  /\ \E n \in 0 .. MaxSize : \E ob \in ArrayObjs(n) :
       storage = ArrayStorage(n) /\ objs = ob
  /\ size = 0 /\ count = 0
  /\ op = "array" /\ args = <<>> /\ ret = undefined /\ err = ""
  /\ lastRemoved = undefined

ConstructEmpty(sz) ==
  LET h == NewEmpty(sz) IN
  /\ op = "array"
  /\ op' = "new" /\ args' = <<sz>> /\ ret' = undefined /\ err' = ""
  /\ storage' = h.storage /\ objs' = h.objs /\ size' = h.size /\ count' = h.count
  /\ UNCHANGED lastRemoved

NextAll ==
  \/ \E sz \in 0 .. MaxSize : ConstructEmpty(sz)
  \/ Construct
  \/ Heapsort
  \/ (op \notin {"array", "heapsort"} /\ Next)

SpecAll == InitAll /\ [][NextAll]_vars

\* ---- what the sift loops do, iteration by iteration ----------------------
\* The iterations of _float(i): the storage and the value of i at each test
\* of the while condition, the last one being the test that fails.
RECURSIVE FloatTrace(_, _, _, _)
FloatTrace(st, ob, sz, i) ==
  LET p == _parent(i) IN
  IF _inSizeBounds(sz, p) /\ JsGreater(priority(st, ob, i), priority(st, ob, p))
  THEN <<[st |-> st, i |-> i]>> \o FloatTrace(_swap(st, i, p), ob, sz, p)
  ELSE <<[st |-> st, i |-> i]>>

\* The indices whose priority one test of _float's while condition reads
\* (`&&` does not evaluate its right side when the left side is false).
FloatStepReads(sz, i) ==
  IF _inSizeBounds(sz, _parent(i)) THEN {i, _parent(i)} ELSE {}

\* The iterations of _sink(i): the storage and the value of i at the start of
\* each pass through the loop body, the last one being the pass that stops.
RECURSIVE SinkTrace(_, _, _, _)
SinkTrace(st, ob, cnt, i) ==
  LET max == SinkMax(st, ob, cnt, i) IN
  IF max = i
  THEN <<[st |-> st, i |-> i]>>
  ELSE <<[st |-> st, i |-> i]>> \o SinkTrace(_swap(st, i, max), ob, cnt, max)

\* Mutant of SinkStepReads: the children are tested with _inSizeBounds.
SinkStepReads_sizeBounds(st, ob, cnt, i) ==
  LET l == _left(i)
      r == _right(i)
      sz == Cardinality(DOMAIN st) - 1
  IN  (IF _inSizeBounds(sz, l) THEN {i, l} ELSE {})
        \cup (IF _inSizeBounds(sz, r) THEN {i, l, r} ELSE {})

\* The indices whose priority one pass through _sink's loop body reads: max
\* (which is i) and l when l is in count bounds, then max (i or l) and r when
\* r is in count bounds.
SinkStepReads(st, ob, cnt, i) ==
  LET l == _left(i)
      r == _right(i)
      max1 == IF _inCountBounds(cnt, l) /\ JsLess(priority(st, ob, i), priority(st, ob, l))
              THEN l ELSE i
  IN  (IF _inCountBounds(cnt, l) THEN {i, l} ELSE {})
        \cup (IF _inCountBounds(cnt, r) THEN {max1, r} ELSE {})

\* The calls of _sink one removeMax makes: the storage, this._count and the
\* index at the moment of the call.
RemoveMaxSinkCalls(st, ob, cnt) ==
  IF cnt = 0 THEN {}
  ELSE {[st |-> _swap(st, 1, cnt), cnt |-> cnt - 1, i |-> 1]}

\* The calls of _sink the removeMax calls of sort make.
RECURSIVE SortSinkCalls(_, _, _, _, _)
SortSinkCalls(st, ob, cnt, i, n) ==
  IF i < n
  THEN LET r == removeMax(st, ob, cnt) IN
       RemoveMaxSinkCalls(st, ob, cnt) \cup SortSinkCalls(r.storage, ob, r.count, i + 1, n)
  ELSE {}

\* The calls of _sink that _buildheap makes.
BuildheapSinkCalls(st, ob, cnt) ==
  {[st |-> BuildheapBefore(st, ob, cnt, i), cnt |-> cnt, i |-> i] : i \in 1 .. cnt \div 2}

\* ======================================================================
\* Properties
\* ======================================================================
\* a >= b on operands that must both be numbers.
NumGeq(a, b) == a # undefined /\ b # undefined /\ a >= b

HeapProperty(st, ob, cnt) ==
  \A i \in 1 .. cnt :
    /\ 2 * i <= cnt => NumGeq(priority(st, ob, i), priority(st, ob, 2 * i))
    /\ 2 * i + 1 <= cnt => NumGeq(priority(st, ob, i), priority(st, ob, 2 * i + 1))

\* How many of the slots 1 .. cnt hold a record equal to r.
CountOf(st, ob, cnt, r) == Cardinality({i \in 1 .. cnt : ob[st[i]] = r})

\* Every record value that occurs in the objects ob.
RecordsOf(ob) == {ob[k] : k \in DOMAIN ob}

\* Slots 1 .. n are in non-decreasing priority order.
Ascending(st, ob, n) ==
  \A i \in 1 .. n - 1 : NumGeq(priority(st, ob, i + 1), priority(st, ob, i))

\* C1: after every public operation of any run (inserts that fail and
\* removeMax on an empty heap included), on a heap built empty or from an
\* array, every live parent's priority is >= its live children's.
C1_HeapProperty == HeapProperty(storage, objs, count)

\* A third record was inserted into a capacity-3 heap and floated to the root
\* past two strictly smaller records.
C1_Witness ==
  /\ op = "insert" /\ err = "" /\ count = 3 /\ storage[1] = 3
  /\ args[1] = priority(storage, objs, 1)
  /\ priority(storage, objs, 1) > priority(storage, objs, 2)
  /\ priority(storage, objs, 1) > priority(storage, objs, 3)

\* C2: a removeMax step on a non-empty heap returns the element of a live
\* record of maximal priority and removes exactly that record from the
\* multiset of live records; an insert step that succeeds adds exactly the
\* record (p, e) to it.
C2_Refinement ==
  [][ /\ (op' = "removeMax" /\ count >= 1) =>
           \E i \in 1 .. count :
             LET rec == objs[storage[i]] IN
             /\ \A j \in 1 .. count : NumGeq(rec.priority, priority(storage, objs, j))
             /\ ret' = rec.element
             /\ \A r \in RecordsOf(objs) :
                  CountOf(storage, objs, count, r)
                    = CountOf(storage', objs', count', r) + (IF r = rec THEN 1 ELSE 0)
      /\ (op' = "insert" /\ err' = "") =>
           LET rec == [priority |-> args'[1], element |-> args'[2]] IN
           \A r \in RecordsOf(objs) \cup RecordsOf(objs') :
             CountOf(storage', objs', count', r)
               = CountOf(storage, objs, count, r) + (IF r = rec THEN 1 ELSE 0)
    ]_vars

\* removeMax returned element 1 of a record of priority 2 while another
\* record of priority 2 stays live at the root.
C2_Witness ==
  /\ op = "removeMax" /\ count = 2 /\ ret = 1 /\ lastRemoved = 2
  /\ priority(storage, objs, 1) = 2
  /\ objs[storage[1]].element = undefined

\* C3: a removeMax on a non-empty heap that follows an earlier removeMax with
\* no successful insert in between returns the element of a record whose
\* priority is <= the priority of the record returned before; on an empty
\* heap it returns the empty indicator.
C3_ExtractionOrder ==
  [][ /\ (op' = "removeMax" /\ count >= 1) =>
           /\ ret' = objs'[storage'[count]].element
           /\ lastRemoved' = objs'[storage'[count]].priority
           /\ lastRemoved # undefined => lastRemoved' <= lastRemoved
      /\ (op' = "removeMax" /\ count = 0) => ret' = undefined
    ]_vars

\* Two removals in a row from a capacity-3 heap: priority 2 (now in slot 3),
\* then priority 1 (now in slot 2); priority 0 is still live.
C3_Witness ==
  /\ op = "removeMax" /\ size = 3 /\ count = 1 /\ lastRemoved = 1
  /\ priority(storage, objs, 3) = 2
  /\ priority(storage, objs, 2) = 1
  /\ priority(storage, objs, 1) = 0

\* C4: an insert step on a heap with count = size throws 'Heap is full!' and
\* changes neither count nor any slot nor any record object.
C4_CapacityEnforced ==
  [][ (op' = "insert" /\ count = size) =>
        /\ err' = "Heap is full!"
        /\ count' = count /\ size' = size
        /\ storage' = storage /\ objs' = objs
    ]_vars

\* An insert was refused by a full capacity-2 heap.
C4_Witness ==
  /\ op = "insert" /\ err = "Heap is full!" /\ size = 2 /\ count = 2
  /\ args[1] > priority(storage, objs, 1)

\* C5: a removeMax step on a heap with count = 0 returns undefined, throws
\* nothing, leaves count at 0 and changes no slot and no record object.
C5_EmptyRemoveMax ==
  [][ (op' = "removeMax" /\ count = 0) =>
        /\ ret' = undefined /\ err' = ""
        /\ count' = 0 /\ size' = size
        /\ storage' = storage /\ objs' = objs
    ]_vars

\* removeMax answered undefined on a heap that was drained by removals: no
\* record object holds an undefined element, so the answer is no record's.
C5_Witness ==
  /\ op = "removeMax" /\ count = 0 /\ ret = undefined /\ err = ""
  /\ size >= 2 /\ lastRemoved # undefined
  /\ \A k \in DOMAIN objs : objs[k].element # undefined

\* Every slot still holds the record object the empty constructor put there.
FreshlyEmpty ==
  \A k \in DOMAIN objs : objs[k] = [priority |-> undefined, element |-> undefined]

\* C6: count is 0 right after constructing an empty heap; a successful insert
\* adds 1 to it, a removeMax on a non-empty heap subtracts 1, a failed insert
\* and a removeMax on an empty heap leave it alone, count() returns it and
\* changes no field, and it is 0 after sort().
C6_CountConsistency ==
  /\ (op = "new" /\ FreshlyEmpty) => count = 0
  /\ [][ /\ (op' = "insert" /\ err' = "") => count' = count + 1
         /\ (op' = "insert" /\ err' # "") => count' = count
         /\ (op' = "removeMax" /\ count >= 1) => count' = count - 1
         /\ (op' = "removeMax" /\ count = 0) => count' = count
         /\ op' = "count" =>
              /\ ret' = count /\ err' = ""
              /\ UNCHANGED <<storage, objs, size, count>>
         /\ op' = "sort" => count' = 0
       ]_vars

\* sort() drained a heap that held three records.
C6_Witness ==
  /\ op = "sort" /\ count = 0 /\ size = 3
  /\ \A k \in DOMAIN objs : objs[k].priority # undefined
  /\ priority(storage, objs, 1) < priority(storage, objs, 3)

\* C7: heapsort(array) leaves the array's length and slot 0 alone, leaves
\* slots 1 .. n in non-decreasing priority order, and leaves in them the same
\* multiset of records as before (no record object is altered).
C7_Heapsort ==
  [][ op' = "heapsort" =>
        LET n == Cardinality(DOMAIN storage) - 1 IN
        /\ DOMAIN storage' = DOMAIN storage
        /\ storage'[0] = storage[0]
        /\ Ascending(storage', objs', n)
        /\ \A r \in RecordsOf(objs) \cup RecordsOf(objs') :
             CountOf(storage', objs', n, r) = CountOf(storage, objs, n, r)
    ]_vars

\* An array of five records with a duplicated priority was sorted, and the
\* record objects changed places.
C7_Witness ==
  /\ op = "heapsort" /\ DOMAIN storage = 0 .. 5
  /\ storage[1] = 5 /\ storage[5] = 1
  /\ priority(storage, objs, 1) < priority(storage, objs, 2)
  /\ priority(storage, objs, 2) = priority(storage, objs, 3)
  /\ priority(storage, objs, 4) < priority(storage, objs, 5)

\* C8: the constructor from an array of n records yields size = count = n, a
\* heap over slots 1 .. n whose root has the greatest priority of all, and in
\* slots 1 .. n the same multiset of records as the array held.
C8_Heapify ==
  [][ op' = "new" =>
        LET n == Cardinality(DOMAIN storage) - 1 IN
        /\ size' = n /\ count' = n
        /\ DOMAIN storage' = DOMAIN storage /\ storage'[0] = storage[0]
        /\ HeapProperty(storage', objs', n)
        /\ \A j \in 1 .. n :
             NumGeq(priority(storage', objs', 1), priority(storage', objs', j))
        /\ \A r \in RecordsOf(objs) \cup RecordsOf(objs') :
             CountOf(storage', objs', n, r) = CountOf(storage, objs, n, r)
    ]_vars

\* A heap was built from five records whose maximum was last in the array:
\* that record object is now the root, over two levels of children.
C8_Witness ==
  /\ op = "new" /\ size = 5 /\ count = 5
  /\ storage[1] = 5
  /\ priority(storage, objs, 1) > priority(storage, objs, 2)
  /\ priority(storage, objs, 2) > priority(storage, objs, 4)

\* C9: a sort step on a heap with count = n ends with count = 0, returns the
\* storage array, leaves in slots 1 .. n the n records that were live, in
\* ascending priority order, and leaves slot 0 and slots n+1 .. size alone.
C9_Sort ==
  [][ op' = "sort" =>
        LET n == count IN
        /\ count' = 0 /\ err' = ""
        /\ ret' = storage'
        /\ DOMAIN storage' = DOMAIN storage
        /\ Ascending(storage', objs', n)
        /\ \A r \in RecordsOf(objs) \cup RecordsOf(objs') :
             CountOf(storage', objs', n, r) = CountOf(storage, objs, n, r)
        /\ \A i \in (DOMAIN storage) \ (1 .. n) : storage'[i] = storage[i]
        /\ objs' = objs
    ]_vars

\* sort() left three records of three different priorities in ascending
\* order in a capacity-3 heap.
C9_Witness ==
  /\ op = "sort" /\ count = 0 /\ size = 3
  /\ priority(storage, objs, 1) # undefined
  /\ priority(storage, objs, 1) < priority(storage, objs, 2)
  /\ priority(storage, objs, 2) < priority(storage, objs, 3)

\* C10: in every reachable state 0 <= count <= size and the storage array has
\* size + 1 slots, and no step changes size or the array's length.
C10_Bounds ==
  /\ [](0 <= count /\ count <= size /\ DOMAIN storage = 0 .. size)
  /\ [][size' = size /\ DOMAIN storage' = DOMAIN storage]_vars

\* An insert filled a capacity-3 heap to its capacity.
C10_Witness ==
  /\ op = "insert" /\ err = "" /\ size = 3 /\ count = 3

\* What removeMax returns on an empty heap.
EmptyIndicator == removeMax(ArrayStorage(0), <<>>, 0).ret

\* C11: the result of a removeMax on a non-empty heap is never equal to the
\* result removeMax gives on an empty heap, whatever element payload the
\* caller inserted (an undefined payload included).
C11_Distinguishable ==
  [][ (op' = "removeMax" /\ count >= 1) => ret' # EmptyIndicator ]_vars

\* The records in slots 1 .. cnt, in slot order.
LiveSeq(st, ob, cnt) == [k \in 1 .. cnt |-> ob[st[k]]]

\* A freshly constructed empty heap of capacity sz into which the records
\* live in (st, ob, cnt) were inserted in slot order.
FreshTwin(st, ob, sz, cnt) == InsertAll(NewEmpty(sz), LiveSeq(st, ob, cnt), cnt)

Erased(ob) ==
  [k \in DOMAIN ob |-> [priority |-> ob[k].priority, element |-> undefined]]

\* The priorities of the record objects ob.
PrioritiesOf(ob) == [k \in DOMAIN ob |-> ob[k].priority]

\* C13: in every step, the same call on the same heap with the element
\* payloads erased (in the stored records and in the argument) gives the same
\* count, the same error and the same record object in every slot, so any two
\* runs that differ only in payloads agree on them; no call alters a live
\* record object, insert stores (priority, element) as one record, and
\* removeMax returns the element of the record object that was the root.
C13_PayloadIndependence ==
  [][ /\ LET ob2 == Erased(objs) IN
         /\ (op' = "insert" /\ err' = "") =>
              LET r == insert(storage, ob2, size, count, args'[1], undefined) IN
              /\ r.storage = storage' /\ r.count = count'
              /\ PrioritiesOf(r.objs) = PrioritiesOf(objs')
         /\ op' = "removeMax" =>
              LET r == removeMax(storage, ob2, count) IN
              r.storage = storage' /\ r.count = count'
         /\ op' = "sort" =>
              LET r == sort(storage, ob2, count) IN
              r.storage = storage' /\ r.count = count'
      /\ op' = "insert" => ((err' = "Heap is full!") <=> (count = size))
      /\ \A j \in 1 .. count : objs'[storage[j]] = objs[storage[j]]
      /\ (op' = "insert" /\ err' = "") =>
           objs'[storage[count + 1]] = [priority |-> args'[1], element |-> args'[2]]
      /\ (op' = "removeMax" /\ count >= 1) => ret' = objs[storage[1]].element
    ]_vars

\* A record of priority 1 with element 1 was inserted under a root of the
\* same priority with an undefined element, and stayed below it.
C13_Witness ==
  /\ op = "insert" /\ err = "" /\ count = 2 /\ args = <<1, 1>>
  /\ objs[storage[1]] = [priority |-> 1, element |-> undefined]
  /\ objs[storage[2]] = [priority |-> 1, element |-> 1]

\* The priority sink(i) tracks as maximum once it has looked at the left child.
Tracked(st, ob, i) ==
  IF priority(st, ob, 2 * i) > priority(st, ob, i)
  THEN priority(st, ob, 2 * i) ELSE priority(st, ob, i)

\* C14 as claimed: in the one sink step that heapifies an array of three
\* records, the right child becomes the root whenever its priority is not
\* less than the tracked maximum (so also when left = right > root).
C14_RightPreferredOnTie ==
  [][ (op' = "new" /\ DOMAIN storage = 0 .. 3
         /\ priority(storage, objs, 3) >= Tracked(storage, objs, 1))
        => storage'[1] = storage[3]
    ]_vars

\* C14 as amended: a sink step at i with both children live swaps i with the
\* right child exactly when the right child's priority is strictly greater
\* than the tracked maximum; otherwise with the left child when that is
\* strictly greater than i's, otherwise with none.  On left = right > i the
\* left child is chosen.
C14_SinkTieBreak ==
  /\ [](op = "array" =>
          \A i \in 1 .. (Cardinality(DOMAIN storage) - 1) :
            2 * i + 1 <= Cardinality(DOMAIN storage) - 1 =>
              SinkMax(storage, objs, Cardinality(DOMAIN storage) - 1, i)
                = IF priority(storage, objs, 2 * i + 1) > Tracked(storage, objs, i)
                  THEN 2 * i + 1
                  ELSE IF priority(storage, objs, 2 * i) > priority(storage, objs, i)
                  THEN 2 * i
                  ELSE i)
  /\ [][ (op' = "new" /\ DOMAIN storage = 0 .. 3) =>
           IF priority(storage, objs, 3) > Tracked(storage, objs, 1)
           THEN storage' = _swap(storage, 1, 3)
           ELSE IF priority(storage, objs, 2) > priority(storage, objs, 1)
           THEN storage' = _swap(storage, 1, 2)
           ELSE storage' = storage
       ]_vars

\* An array of three records with left = right > root was heapified: the
\* left child's record object is the root now, the right child's stayed.
C14_Witness ==
  /\ op = "new" /\ size = 3
  /\ storage[1] = 2 /\ storage[2] = 1 /\ storage[3] = 3
  /\ priority(storage, objs, 1) = priority(storage, objs, 3)
  /\ priority(storage, objs, 1) > priority(storage, objs, 2)

\* C15: a removeMax step on a heap with count = n >= 1 leaves in slot n the
\* record object that was in slot 1, makes count n - 1, leaves in slots
\* 1 .. n-1 a permutation of the record objects that were in slots 2 .. n, and
\* leaves slot 0, slots n+1 .. size and every record object alone (for n = 1
\* the record is swapped with itself).
C15_RemoveMaxFrame ==
  [][ (op' = "removeMax" /\ count >= 1) =>
        LET n == count IN
        /\ storage'[n] = storage[1]
        /\ count' = n - 1
        /\ {storage'[i] : i \in 1 .. n - 1} = {storage[i] : i \in 2 .. n}
        /\ \A i \in 1 .. n - 1 : \A j \in 1 .. n - 1 :
             storage'[i] = storage'[j] => i = j
        /\ \A i \in (DOMAIN storage) \ (1 .. n) : storage'[i] = storage[i]
        /\ DOMAIN storage' = DOMAIN storage
        /\ objs' = objs
        /\ \A j \in 1 .. n : NumGeq(priority(storage', objs', n), priority(storage, objs, j))
    ]_vars

\* removeMax on a full capacity-3 heap moved the root's record object to
\* slot 3 and the object that was in slot 3 to the root.
C15_Witness ==
  /\ op = "removeMax" /\ size = 3 /\ count = 2
  /\ storage[3] = 1 /\ storage[1] = 3 /\ storage[2] = 2
  /\ priority(storage, objs, 3) > priority(storage, objs, 1)
  /\ priority(storage, objs, 1) > priority(storage, objs, 2)

\* Every index k in lo .. cnt holds a priority >= those of its live children:
\* every subtree rooted at an index in lo .. cnt satisfies the heap property.
HeapFrom(st, ob, cnt, lo) ==
  \A k \in lo .. cnt :
    /\ 2 * k <= cnt => NumGeq(priority(st, ob, k), priority(st, ob, 2 * k))
    /\ 2 * k + 1 <= cnt => NumGeq(priority(st, ob, k), priority(st, ob, 2 * k + 1))

\* C16: while the constructor heapifies an array of n records, for every i
\* from floor(n/2) down to 1: when sink(i) is invoked every subtree rooted at
\* an index j, i < j <= n, satisfies the heap property, and when it returns
\* every subtree rooted at j, i <= j <= n, does; the indices above floor(n/2)
\* have no child; the state after sink(1) is the heap the constructor leaves.
C16_BuildheapInvariant ==
  [][ op' = "new" =>
        LET n == Cardinality(DOMAIN storage) - 1 IN
        /\ \A i \in 1 .. n \div 2 :
             LET b == BuildheapBefore(storage, objs, n, i) IN
             /\ HeapFrom(b, objs, n, i + 1)
             /\ HeapFrom(_sink(b, objs, n, i), objs, n, i)
             /\ _sink(b, objs, n, i) = BuildheapBefore(storage, objs, n, i - 1)
        /\ \A j \in n \div 2 + 1 .. n : 2 * j > n
        /\ storage' = BuildheapBefore(storage, objs, n, 0)
    ]_vars

\* Heapifying five records took sink(2) and then a two-level sink(1): the
\* object from slot 4 rose to the root and the object from slot 1 sank to
\* slot 4.
C16_Witness ==
  /\ op = "new" /\ size = 5
  /\ storage[1] = 4 /\ storage[2] = 2 /\ storage[4] = 1
  /\ priority(storage, objs, 1) > priority(storage, objs, 2)
  /\ priority(storage, objs, 2) > priority(storage, objs, 4)

\* The calls of _sink made by the step that is being taken.
StepSinkCalls ==
  LET n == Cardinality(DOMAIN storage) - 1 IN
  CASE op' = "removeMax" -> RemoveMaxSinkCalls(storage, objs, count)
    [] op' = "sort" -> SortSinkCalls(storage, objs, count, 0, count)
    [] op' = "new" /\ args' = <<>> -> BuildheapSinkCalls(storage, objs, n)
    [] op' = "heapsort" ->
         BuildheapSinkCalls(storage, objs, n)
           \cup SortSinkCalls(_buildheap(storage, objs, n), objs, n, 0, n)
    [] OTHER -> {}

\* C17: in every step, every test of _float's while condition reads only
\* priorities at indices 1 .. count + 1 (count before the increment) and
\* every pass of _sink's loop reads only priorities at indices 1 .. count
\* (the count at the moment of the call: in removeMax the decremented one);
\* every index that is swapped lies in the same ranges; slot 0 is never read
\* for a priority and keeps the sentinel.
C17_NoStaleRead ==
  [][ /\ (op' = "insert" /\ err' = "") =>
           LET tr == FloatTrace(storage, objs', size, count + 1) IN
           /\ \A k \in 1 .. Len(tr) :
                /\ FloatStepReads(size, tr[k].i) \subseteq 1 .. count + 1
                /\ tr[k].i \in 1 .. count + 1
           /\ tr[Len(tr)].st = storage'
      /\ \A c \in StepSinkCalls :
           LET tr == SinkTrace(c.st, objs, c.cnt, c.i) IN
           /\ \A k \in 1 .. Len(tr) :
                /\ SinkStepReads(tr[k].st, objs, c.cnt, tr[k].i) \subseteq 1 .. c.cnt
                /\ Len(tr) >= 2 => tr[k].i \in 1 .. c.cnt
           /\ c.cnt <= Cardinality(DOMAIN storage) - 1
      /\ op' = "removeMax" =>
           \A c \in StepSinkCalls :
             c.cnt = count' /\ _sink(c.st, objs, c.cnt, c.i) = storage'
      /\ storage'[0] = null
    ]_vars

\* removeMax on a full capacity-3 heap sank the new root below the record
\* in slot 2 while the removed maximum sat in slot 3, outside the count.
C17_Witness ==
  /\ op = "removeMax" /\ size = 3 /\ count = 2
  /\ storage[1] = 2 /\ storage[2] = 3 /\ storage[3] = 1
  /\ priority(storage, objs, 3) > priority(storage, objs, 1)
  /\ priority(storage, objs, 1) > priority(storage, objs, 2)

\* i is the root, or its parent's priority is >= its own.
FloatStops(st, ob, i) ==
  i = 1 \/ NumGeq(priority(st, ob, i \div 2), priority(st, ob, i))

\* i holds the maximum among itself and its children within cnt.
SinkStops(st, ob, cnt, i) ==
  /\ 2 * i <= cnt => NumGeq(priority(st, ob, i), priority(st, ob, 2 * i))
  /\ 2 * i + 1 <= cnt => NumGeq(priority(st, ob, i), priority(st, ob, 2 * i + 1))

\* C18: every loop of a call runs a bounded number of iterations.  Each
\* iteration of the float loop moves to a strictly smaller index and the loop
\* ends at the first index that is the root or whose parent's priority is >=
\* its own; each iteration of the sink loop moves to a strictly larger index
\* and the loop ends at the first index that holds the maximum among itself
\* and its live children.
C18_Termination ==
  [][ /\ (op' = "insert" /\ err' = "") =>
           LET tr == FloatTrace(storage, objs', size, count + 1) IN
           /\ Len(tr) <= count + 1
           /\ \A k \in 1 .. Len(tr) - 1 : tr[k + 1].i < tr[k].i
           /\ \A k \in 1 .. Len(tr) :
                (k = Len(tr)) <=> FloatStops(tr[k].st, objs', tr[k].i)
           /\ tr[Len(tr)].st = storage'
      /\ \A c \in StepSinkCalls :
           LET tr == SinkTrace(c.st, objs, c.cnt, c.i) IN
           /\ Len(tr) <= c.cnt + 1
           /\ \A k \in 1 .. Len(tr) - 1 : tr[k + 1].i > tr[k].i
           /\ \A k \in 1 .. Len(tr) :
                (k = Len(tr)) <=> SinkStops(tr[k].st, objs, c.cnt, tr[k].i)
           /\ tr[Len(tr)].st = _sink(c.st, objs, c.cnt, c.i)
      /\ op' = "removeMax" =>
           \A c \in StepSinkCalls : _sink(c.st, objs, c.cnt, c.i) = storage'
      /\ op' = "sort" => Cardinality(StepSinkCalls) <= count /\ count' = 0
      /\ (op' = "new" /\ args' = <<>>) =>
           storage' = BuildheapBefore(storage, objs, Cardinality(DOMAIN storage) - 1, 0)
    ]_vars

\* A third record whose priority equals the root's was inserted into a
\* capacity-3 heap and stayed in slot 3.
C18_Witness ==
  /\ op = "insert" /\ err = "" /\ size = 3 /\ count = 3 /\ storage[3] = 3
  /\ args[1] = priority(storage, objs, 1)
  /\ priority(storage, objs, 3) = priority(storage, objs, 1)
  /\ priority(storage, objs, 2) < priority(storage, objs, 1)

\* The record objects referenced from slots 1 .. size.
SlotObjects(st, sz) == {st[i] : i \in 1 .. sz}

\* C19: slots 1 .. size always reference pairwise distinct record objects and
\* slot 0 stays null; every step leaves the same set of objects in the slots;
\* a successful insert writes only the object at slot count + 1 and leaves the
\* priority and element of every record at slots 1 .. count as they were.
C19_NoAliasing ==
  /\ [](/\ storage[0] = null
        /\ \A i, j \in 1 .. size : i # j => storage[i] # storage[j])
  /\ [][ /\ SlotObjects(storage', size') = SlotObjects(storage, size)
         /\ (op' = "insert" /\ err' = "") =>
              /\ \A j \in 1 .. count : objs'[storage[j]] = objs[storage[j]]
              /\ \A k \in DOMAIN objs :
                   k # storage[count + 1] => objs'[k] = objs[k]
              /\ objs'[storage[count + 1]] =
                   [priority |-> args'[1], element |-> args'[2]]
       ]_vars

\* A heap constructed empty holds three records of three different
\* priorities after its third insert, whose record went to the root.
C19_Witness ==
  /\ op = "insert" /\ err = "" /\ size = 3 /\ count = 3
  /\ storage[1] = 3 /\ storage[2] = 1 /\ storage[3] = 2
  /\ objs[3].priority = 2 /\ objs[2].priority = 1 /\ objs[1].priority = 0
  /\ args[1] = 2

====
